---- MODULE Spec2Model ----
(***************************************************************************)
(* Model of the manager's storage adapter of hustsync.rs:                  *)
(*   crates/hustsync-manager/src/database/mod.rs  (KvDBAdapter)            *)
(*   crates/hustsync-internal/src/msg.rs          (WorkerStatus,           *)
(*                                                 MirrorStatus)           *)
(* The adapter is shared by the threads of Procs.  Every call of the       *)
(* inner KvAdapterTrait (get, get_all, put, delete) is one atomic step;    *)
(* an adapter operation that makes several such calls is several steps.    *)
(* Strings that are built or split by the code are sequences of            *)
(* one-character strings.  The state after construction is the state after *)
(* make_db_adapter and init(): both buckets exist and are empty (Init), or *)
(* hold the records of the file that was opened (StoredInit); MakeInit is  *)
(* the state before make_db_adapter.  The calls of the inner store are     *)
(* taken to succeed.  ret[p] is what the last call of thread p returned;   *)
(* hist is the set of the pairs <<worker_id, mirror_id>>                   *)
(* update_mirror_status has been called with.                              *)
(***************************************************************************)
EXTENDS Integers, Sequences, FiniteSets, Bags, TLC

VARIABLES db, now, pc, loc, ret, calls, hist

vars == <<db, now, pc, loc, ret, calls, hist>>

(* ------------------------------ bounds --------------------------------- *)

\* largest value of the clock
MaxTime == 2

\* number of adapter calls started in one behaviour
MaxCalls == 3

\* the threads sharing the adapter
Procs == {"p1", "p2"}

(* --------------------------- program constants -------------------------- *)

WORKER_BUCKETKEY == "workers"

STATUS_BUCKETKEY == "mirror_status"

(* ------------------------------ strings -------------------------------- *)

EmptyStr == << >>

Slash == "/"

\* a key made of the mirror id alone
StatusKeyMirrorOnly(mirror_id, worker_id) == mirror_id

\* format!("{}/{}", mirror_id, worker_id)
StatusKey(mirror_id, worker_id) == mirror_id \o <<Slash>> \o worker_id

RECURSIVE SplitFrom(_, _, _)
\* the segments of s from position i on, cur being the segment read so far
SplitFrom(s, i, cur) ==
    IF i > Len(s) THEN <<cur>>
    ELSE IF s[i] = Slash THEN <<cur>> \o SplitFrom(s, i + 1, EmptyStr)
    ELSE SplitFrom(s, i + 1, Append(cur, s[i]))

\* k.split('/').collect()
Split(s) == SplitFrom(s, 1, EmptyStr)

\* parts.len() > 1 && parts[1] == worker_id
KeyMatchesWorker(k, worker_id) ==
    LET parts == Split(k) IN Len(parts) > 1 /\ parts[2] = worker_id

\* char::is_whitespace, on the characters of the inputs
IsSpace(c) == c \in {" ", "\t", "\n"}

RECURSIVE TrimStart(_)
TrimStart(s) ==
    IF s # EmptyStr /\ IsSpace(Head(s)) THEN TrimStart(Tail(s)) ELSE s

RECURSIVE TrimEnd(_)
TrimEnd(s) ==
    IF s # EmptyStr /\ IsSpace(s[Len(s)])
    THEN TrimEnd(SubSeq(s, 1, Len(s) - 1)) ELSE s

\* str::trim
Trim(s) == TrimEnd(TrimStart(s))

AsciiUpper == <<"A", "B", "C", "D", "E", "F", "G", "H", "I", "J", "K", "L",
                "M", "N", "O", "P", "Q", "R", "S", "T", "U", "V", "W", "X",
                "Y", "Z">>

AsciiLower == <<"a", "b", "c", "d", "e", "f", "g", "h", "i", "j", "k", "l",
                "m", "n", "o", "p", "q", "r", "s", "t", "u", "v", "w", "x",
                "y", "z">>

\* u8::to_ascii_lowercase
LowerChar(c) ==
    IF \E i \in 1..26 : AsciiUpper[i] = c
    THEN AsciiLower[CHOOSE i \in 1..26 : AsciiUpper[i] = c]
    ELSE c

\* str::to_ascii_lowercase
ToAsciiLowercase(s) == [i \in 1..Len(s) |-> LowerChar(s[i])]

(* ----------------------------- timestamps ------------------------------ *)

Digits == <<"0", "1", "2", "3", "4", "5", "6", "7", "8", "9">>

UtcMark == "Z"

RECURSIVE FormatDigits(_)
\* the decimal digits of t
FormatDigits(t) ==
    IF t < 10 THEN <<Digits[t + 1]>>
    ELSE FormatDigits(t \div 10) \o <<Digits[(t % 10) + 1]>>

\* DateTime<Utc> as serde writes it: a string, the instant followed by the
\* UTC designator
FormatTime(t) == FormatDigits(t) \o <<UtcMark>>

\* the value of each digit
DigitValues == [c \in {Digits[i] : i \in 1..10} |->
                   CHOOSE d \in 0..9 : Digits[d + 1] = c]

DigitValue(c) == DigitValues[c]

IsDigit(c) == c \in DOMAIN DigitValues

RECURSIVE ParseDigits(_, _)
\* the value of the first n digits of s
ParseDigits(s, n) ==
    IF n = 0 THEN 0 ELSE 10 * ParseDigits(s, n - 1) + DigitValue(s[n])

\* a string is a timestamp when it is digits followed by the UTC designator
IsTime(s) ==
    /\ Len(s) >= 2
    /\ s[Len(s)] = UtcMark
    /\ \A i \in 1..(Len(s) - 1) : IsDigit(s[i])

ParseTime(s) == ParseDigits(s, Len(s) - 1)

(* ------------------------------- results ------------------------------- *)

Ok(v) == [ok |-> TRUE, val |-> v]

Err(kind, msg) == [ok |-> FALSE, val |-> <<kind, msg>>]

\* AdapterError::Anyhow(format!("json unmarshal error: {}", e))
DecodeError == Err("Anyhow", <<"json unmarshal error">>)

\* AdapterError::Anyhow(format!("invalid workerID {}", worker_id))
WorkerNotFound(worker_id) == Err("Anyhow", <<"invalid workerID", worker_id>>)

\* AdapterError::Anyhow(format!("no mirror '{}' exists in worker '{}'", ..))
MirrorNotFound(mirror_id, worker_id) ==
    Err("Anyhow", <<"no mirror", mirror_id, "exists in worker", worker_id>>)

\* AdapterError::UnsupportedDbType(s.into())
UnsupportedDbType(s) == Err("UnsupportedDbType", s)

\* AdapterError::RdbDatabaseError, from redb::Database::create
RdbDatabaseError == Err("RdbDatabaseError", << >>)

\* a from_str whose error carries the selector as it was matched
DbType_from_str_normalised(s) ==
    IF ToAsciiLowercase(Trim(s)) = <<"r", "e", "d", "b">>
    THEN Ok("Redb")
    ELSE UnsupportedDbType(ToAsciiLowercase(Trim(s)))

\* DbType::from_str
DbType_from_str(s) ==
    IF ToAsciiLowercase(Trim(s)) = <<"r", "e", "d", "b">>
    THEN Ok("Redb")
    ELSE UnsupportedDbType(s)

\* Option<Vec<u8>> of the inner get
None == [some |-> FALSE]

Some(v) == [some |-> TRUE, v |-> v]

(* ------------------------------- records ------------------------------- *)

\* a JSON document is a function from the names of its members to their
\* values; a value is <<"string", s>> or <<"bool", b>>
JStr(s) == <<"string", s>>

JBool(b) == <<"bool", b>>

\* serde: a field of the struct must be a member of the document
HasStr(doc, f) == f \in DOMAIN doc /\ doc[f][1] = "string"

HasBool(doc, f) == f \in DOMAIN doc /\ doc[f][1] = "bool"

HasTime(doc, f) == HasStr(doc, f) /\ IsTime(doc[f][2])

\* an encoding that writes the two timestamps under each other's name
EncodeWorkerSwapped(w) ==
    [f \in {"id", "url", "token", "last_online", "last_register"} |->
        CASE f = "id" -> JStr(w.id)
          [] f = "url" -> JStr(w.url)
          [] f = "token" -> JStr(w.token)
          [] f = "last_online" -> JStr(FormatTime(w.last_register))
          [] f = "last_register" -> JStr(FormatTime(w.last_online))]

\* serde_json::to_vec(&w) of a WorkerStatus, rename_all = "snake_case"
EncodeWorker(w) ==
    [f \in {"id", "url", "token", "last_online", "last_register"} |->
        CASE f = "id" -> JStr(w.id)
          [] f = "url" -> JStr(w.url)
          [] f = "token" -> JStr(w.token)
          [] f = "last_online" -> JStr(FormatTime(w.last_online))
          [] f = "last_register" -> JStr(FormatTime(w.last_register))]

\* serde_json::from_slice::<WorkerStatus>(bytes)
DecodeWorker(doc) ==
    IF /\ HasStr(doc, "id") /\ HasStr(doc, "url") /\ HasStr(doc, "token")
       /\ HasTime(doc, "last_online") /\ HasTime(doc, "last_register")
    THEN Ok([id |-> doc["id"][2],
             url |-> doc["url"][2],
             token |-> doc["token"][2],
             last_online |-> ParseTime(doc["last_online"][2]),
             last_register |-> ParseTime(doc["last_register"][2])])
    ELSE DecodeError

\* the variants of SyncStatus
SyncStatus == {"Syncing", "Success", "Failed", "Disabled", "Paused"}

\* a SyncStatus as serde writes it: the name of the variant
EncodeSyncStatus(st) == JStr(<<st>>)

HasSyncStatus(doc, f) ==
    HasStr(doc, f) /\ Len(doc[f][2]) = 1 /\ doc[f][2][1] \in SyncStatus

\* serde_json::to_vec(&status) of a MirrorStatus, rename_all = "kebab-case"
EncodeMirror(m) ==
    [f \in {"name", "worker", "upstream", "size", "error-msg", "last-update",
            "last-started", "last-ended", "next-scheduled", "status",
            "is-master"} |->
        CASE f = "name" -> JStr(m.name)
          [] f = "worker" -> JStr(m.worker)
          [] f = "upstream" -> JStr(m.upstream)
          [] f = "size" -> JStr(m.size)
          [] f = "error-msg" -> JStr(m.error_msg)
          [] f = "last-update" -> JStr(FormatTime(m.last_update))
          [] f = "last-started" -> JStr(FormatTime(m.last_started))
          [] f = "last-ended" -> JStr(FormatTime(m.last_ended))
          [] f = "next-scheduled" -> JStr(FormatTime(m.next_scheduled))
          [] f = "status" -> EncodeSyncStatus(m.status)
          [] f = "is-master" -> JBool(m.is_master)]

\* serde_json::from_slice::<MirrorStatus>(bytes)
DecodeMirror(doc) ==
    IF /\ HasStr(doc, "name") /\ HasStr(doc, "worker")
       /\ HasStr(doc, "upstream") /\ HasStr(doc, "size")
       /\ HasStr(doc, "error-msg")
       /\ HasTime(doc, "last-update") /\ HasTime(doc, "last-started")
       /\ HasTime(doc, "last-ended") /\ HasTime(doc, "next-scheduled")
       /\ HasSyncStatus(doc, "status")
       /\ HasBool(doc, "is-master")
    THEN Ok([name |-> doc["name"][2],
             worker |-> doc["worker"][2],
             upstream |-> doc["upstream"][2],
             size |-> doc["size"][2],
             error_msg |-> doc["error-msg"][2],
             last_update |-> ParseTime(doc["last-update"][2]),
             last_started |-> ParseTime(doc["last-started"][2]),
             last_ended |-> ParseTime(doc["last-ended"][2]),
             next_scheduled |-> ParseTime(doc["next-scheduled"][2]),
             status |-> doc["status"][2][1],
             is_master |-> doc["is-master"][2]])
    ELSE DecodeError

(* ------------------------- the inner key-value store -------------------- *)

\* KvAdapterTrait::get
KvGet(d, bucket, key) ==
    IF key \in DOMAIN d[bucket] THEN Some(d[bucket][key]) ELSE None

\* KvAdapterTrait::get_all
KvGetAll(d, bucket) == d[bucket]

\* KvAdapterTrait::put: the value of key is replaced as a whole
KvPut(d, bucket, key, value) ==
    [d EXCEPT ![bucket] =
        [k \in (DOMAIN @) \cup {key} |-> IF k = key THEN value ELSE @[k]]]

\* KvAdapterTrait::delete: succeeds whether or not the key is present
KvDelete(d, bucket, key) ==
    [d EXCEPT ![bucket] = [k \in (DOMAIN @) \ {key} |-> @[k]]]

(* -------------------------------- inputs -------------------------------- *)

WorkerIds == {<<"v">>, <<"w">>, <<"w", Slash, "v">>}

MirrorIds == {<<"u">>, <<"u", Slash, "w">>}

\* the pairs <<worker_id, mirror_id>> the callers pass: one mirror under
\* three workers, and a mirror whose key is that of another pair
Pairs ==
    {<<(<<"v">>), (<<"u">>)>>,
     <<(<<"w">>), (<<"u">>)>>,
     <<(<<"w", Slash, "v">>), (<<"u">>)>>,
     <<(<<"v">>), (<<"u", Slash, "w">>)>>}

Urls == {<<"http://a">>}

\* whitespace before and after a selector
Pads == {<<EmptyStr, EmptyStr>>, <<EmptyStr, (<<"\t", " ">>)>>,
         <<(<<" ">>), (<<"\n">>)>>}

\* the selectors proper: "redb" in several mixes of cases, and strings that
\* are not "redb"
Cores ==
    {<<"r", "e", "d", "b">>, <<"R", "E", "D", "B">>, <<"r", "E", "d", "B">>,
     EmptyStr, <<"r", "e", "d", "b", "x">>,
     <<"r", "e", " ", "d", "b">>, <<"R", "e", "d", "i", "s">>}

\* the db_type strings passed to make_db_adapter
DbTypes == {pad[1] \o core \o pad[2] : pad \in Pads, core \in Cores}

\* the db_file strings passed to make_db_adapter
DbFiles == {<<"manager.db">>}

Tokens == {<<"t">>}

\* the WorkerStatus values a caller may pass at the current time
WorkerInputs ==
    [id : WorkerIds, url : Urls, token : Tokens,
     last_online : {0, now}, last_register : {0}]

\* a MirrorStatus with the given name, worker and status
Sample(name, worker, status) ==
    [name |-> name,
     worker |-> worker,
     upstream |-> <<"rsync://up">>,
     size |-> <<"1G">>,
     error_msg |-> IF status = "Syncing" THEN <<"timeout">> ELSE EmptyStr,
     last_update |-> IF status = "Success" THEN 2 ELSE 1,
     last_started |-> 1,
     last_ended |-> 2,
     next_scheduled |-> 3,
     status |-> status,
     is_master |-> status # "Disabled"]

\* the MirrorStatus values a caller may pass for the pair: the adapter takes
\* any status, also one whose name or worker differ from the ids of the call
MirrorInputs(worker_id, mirror_id) ==
    {Sample(mirror_id, worker_id, "Success"),
     Sample(EmptyStr, worker_id, "Syncing"),
     Sample(mirror_id, <<"v">>, "Disabled")}

\* a WorkerStatus record written by an older schema: no member "token"
LegacyWorker(w) ==
    [f \in {"id", "url", "last_online", "last_register"} |-> EncodeWorker(w)[f]]

\* a MirrorStatus record written by an older schema: no member "is-master"
LegacyMirror(m) ==
    [f \in (DOMAIN EncodeMirror(m)) \ {"is-master"} |-> EncodeMirror(m)[f]]

\* the workers a file opened by make_db_adapter may already hold
StoredWorkers ==
    (<<"v">>) :> EncodeWorker([id |-> <<"v">>, url |-> <<"http://a">>,
                              token |-> <<"t">>, last_online |-> 1,
                              last_register |-> 0])
    @@ (<<"w">>) :> LegacyWorker([id |-> <<"w">>, url |-> <<"http://a">>,
                                 token |-> <<"t">>, last_online |-> 0,
                                 last_register |-> 0])

\* the mirror statuses a file opened by make_db_adapter may already hold: a
\* Disabled one, one without a name, one of the older schema and one under a
\* key that has no '/'
StoredStatuses ==
    StatusKey(<<"u">>, <<"v">>) :> EncodeMirror(Sample(<<"u">>, <<"v">>, "Disabled"))
    @@ StatusKey(<<"u">>, <<"w">>) :> EncodeMirror(Sample(EmptyStr, <<"w">>, "Syncing"))
    @@ StatusKey(<<"u", Slash, "w">>, <<"v">>)
          :> LegacyMirror(Sample(<<"u", Slash, "w">>, <<"v">>, "Success"))
    @@ (<<"x">>) :> EncodeMirror(Sample(<<"x">>, <<"v">>, "Success"))

\* the part of f on the keys of S
Restrict(f, S) == [k \in S |-> f[k]]

(* ----------------------- results of the read operations ----------------- *)

\* the Vec pushed in a loop over a HashMap, whose order is unspecified:
\* the bag of the records recs[k] for k in keys
Collect(recs, keys) ==
    [r \in {recs[k] : k \in keys} |-> Cardinality({k \in keys : recs[k] = r})]

\* the values of a bucket decoded as WorkerStatus
Workers(vals) == [k \in DOMAIN vals |-> DecodeWorker(vals[k]).val]

\* the values of a bucket decoded as MirrorStatus
Mirrors(vals) == [k \in DOMAIN vals |-> DecodeMirror(vals[k]).val]

\* what list_workers returns on store d
list_workers_ret(d) ==
    LET workers_map == KvGetAll(d, WORKER_BUCKETKEY)
    IN  IF \E k \in DOMAIN workers_map : ~DecodeWorker(workers_map[k]).ok
        THEN DecodeError
        ELSE Ok(Collect(Workers(workers_map), DOMAIN workers_map))

\* what get_worker returns on store d
get_worker_ret(d, worker_id) ==
    LET v == KvGet(d, WORKER_BUCKETKEY, worker_id)
    IN  IF v.some THEN DecodeWorker(v.v) ELSE WorkerNotFound(worker_id)

\* what get_mirror_status returns on store d
get_mirror_status_ret(d, worker_id, mirror_id) ==
    LET id == StatusKey(mirror_id, worker_id)
        v == KvGet(d, STATUS_BUCKETKEY, id)
    IN  IF v.some THEN DecodeMirror(v.v)
        ELSE MirrorNotFound(mirror_id, worker_id)

\* a list_mirror_status that leaves out the records it cannot decode
list_mirror_status_ret_skipping(d, worker_id) ==
    LET vals == KvGetAll(d, STATUS_BUCKETKEY)
        sel == {k \in DOMAIN vals : /\ KeyMatchesWorker(k, worker_id)
                                    /\ DecodeMirror(vals[k]).ok}
    IN  Ok(Collect(Mirrors(vals), sel))

\* what list_mirror_status returns on store d
list_mirror_status_ret(d, worker_id) ==
    LET vals == KvGetAll(d, STATUS_BUCKETKEY)
        sel == {k \in DOMAIN vals : KeyMatchesWorker(k, worker_id)}
    IN  IF \E k \in sel : ~DecodeMirror(vals[k]).ok
        THEN DecodeError
        ELSE Ok(Collect(Mirrors(vals), sel))

\* what list_all_mirror_status returns on store d
list_all_mirror_status_ret(d) ==
    LET vals == KvGetAll(d, STATUS_BUCKETKEY)
    IN  IF \E k \in DOMAIN vals : ~DecodeMirror(vals[k]).ok
        THEN DecodeError
        ELSE Ok(Collect(Mirrors(vals), DOMAIN vals))

\* a sweep that looks at the status only
FlushableDisabledOnly(m) == m.status = "Disabled"

\* m.status == SyncStatus::Disabled || m.name.is_empty()
Flushable(m) == m.status = "Disabled" \/ m.name = EmptyStr

(* --------------------------------- state -------------------------------- *)

NoLoc == [op |-> "none"]

NoRet == [op |-> "none"]

Init ==
    /\ db = [b \in {WORKER_BUCKETKEY, STATUS_BUCKETKEY} |-> << >>]
    /\ now = 0
    /\ pc = [p \in Procs |-> "idle"]
    /\ loc = [p \in Procs |-> NoLoc]
    /\ ret = [p \in Procs |-> NoRet]
    /\ calls = 0
    /\ hist = {}

\* thread p starts a call
Start(p) ==
    /\ pc[p] = "idle"
    /\ calls < MaxCalls
    /\ calls' = calls + 1

\* thread p returns res from the call op(args)
Return(p, op, args, res) ==
    /\ pc' = [pc EXCEPT ![p] = "idle"]
    /\ loc' = [loc EXCEPT ![p] = NoLoc]
    /\ ret' = [ret EXCEPT ![p] = [op |-> op, args |-> args, res |-> res]]

\* the clock advances
Tick ==
    /\ now < MaxTime
    /\ now' = now + 1
    /\ UNCHANGED <<db, pc, loc, ret, calls, hist>>

(* ------------------------------ operations ------------------------------ *)

\* the store before redb::Database::create has run
NotOpened == [engine \in {"not opened"} |-> << >>]

\* make_db_adapter, DbType::from_str(db_type.as_ref())?
make_db_adapter_from_str(p, db_type, db_file) ==
    /\ Start(p)
    /\ LET r == DbType_from_str(db_type)
       IN  IF ~r.ok
           THEN Return(p, "make_db_adapter", <<db_type, db_file>>, r)
           ELSE /\ pc' = [pc EXCEPT ![p] = "make_db_adapter_create"]
                /\ loc' = [loc EXCEPT ![p] =
                              [op |-> "make_db_adapter", db_type |-> db_type,
                               db_file |-> db_file]]
                /\ ret' = ret
    /\ UNCHANGED <<db, now, hist>>

\* make_db_adapter, redb::Database::create(db_file.as_ref())?: the engine
\* opens or creates the file, or fails
make_db_adapter_create(p) ==
    /\ pc[p] = "make_db_adapter_create"
    /\ \/ /\ db' = IF db = NotOpened THEN << >> ELSE db
          /\ Return(p, "make_db_adapter", <<loc[p].db_type, loc[p].db_file>>,
                    Ok("KvDBAdapter"))
       \/ /\ db' = db
          /\ Return(p, "make_db_adapter", <<loc[p].db_type, loc[p].db_file>>,
                    RdbDatabaseError)
    /\ UNCHANGED <<now, calls, hist>>

\* KvDBAdapter::init on the adapter make_db_adapter returned
init(p) ==
    /\ Start(p)
    /\ db # NotOpened
    /\ db' = [b \in {WORKER_BUCKETKEY, STATUS_BUCKETKEY} |->
                 IF b \in DOMAIN db THEN db[b] ELSE << >>]
    /\ Return(p, "init", << >>, Ok(<< >>))
    /\ UNCHANGED <<now, hist>>

list_workers(p) ==
    /\ Start(p)
    /\ Return(p, "list_workers", << >>, list_workers_ret(db))
    /\ UNCHANGED <<db, now, hist>>

get_worker(p, worker_id) ==
    /\ Start(p)
    /\ Return(p, "get_worker", <<worker_id>>, get_worker_ret(db, worker_id))
    /\ UNCHANGED <<db, now, hist>>

\* delete_worker, the existence check: self.inner.get and the early return
delete_worker_get(p, worker_id) ==
    /\ Start(p)
    /\ LET v == KvGet(db, WORKER_BUCKETKEY, worker_id)
       IN  IF ~v.some
           THEN Return(p, "delete_worker", <<worker_id>>,
                       WorkerNotFound(worker_id))
           ELSE /\ pc' = [pc EXCEPT ![p] = "delete_worker_delete"]
                /\ loc' = [loc EXCEPT ![p] =
                              [op |-> "delete_worker", worker_id |-> worker_id]]
                /\ ret' = ret
    /\ UNCHANGED <<db, now, hist>>

\* a delete_worker that also deletes the statuses under the worker's keys
delete_worker_delete_cascade(p) ==
    /\ pc[p] = "delete_worker_delete"
    /\ db' = [b \in DOMAIN db |->
                 IF b = WORKER_BUCKETKEY
                 THEN KvDelete(db, b, loc[p].worker_id)[b]
                 ELSE [k \in {j \in DOMAIN db[b] :
                                ~KeyMatchesWorker(j, loc[p].worker_id)}
                         |-> db[b][k]]]
    /\ Return(p, "delete_worker", <<loc[p].worker_id>>, Ok(<< >>))
    /\ UNCHANGED <<now, calls, hist>>

\* a delete_worker whose delete fails when the key is gone
delete_worker_delete_checked(p) ==
    /\ pc[p] = "delete_worker_delete"
    /\ db' = KvDelete(db, WORKER_BUCKETKEY, loc[p].worker_id)
    /\ Return(p, "delete_worker", <<loc[p].worker_id>>,
              IF KvGet(db, WORKER_BUCKETKEY, loc[p].worker_id).some
              THEN Ok(<< >>) ELSE WorkerNotFound(loc[p].worker_id))
    /\ UNCHANGED <<now, calls, hist>>

\* a delete_worker that returns without the delete
delete_worker_delete_skipped(p) ==
    /\ pc[p] = "delete_worker_delete"
    /\ db' = db
    /\ Return(p, "delete_worker", <<loc[p].worker_id>>, Ok(<< >>))
    /\ UNCHANGED <<now, calls, hist>>

\* delete_worker, self.inner.delete
delete_worker_delete(p) ==
    /\ pc[p] = "delete_worker_delete"
    /\ db' = KvDelete(db, WORKER_BUCKETKEY, loc[p].worker_id)
    /\ Return(p, "delete_worker", <<loc[p].worker_id>>, Ok(<< >>))
    /\ UNCHANGED <<now, calls, hist>>

\* a create_worker that stores the record under its token
create_worker_db_by_token(d, w) ==
    KvPut(d, WORKER_BUCKETKEY, w.token, EncodeWorker(w))

\* a create_worker that keeps the record already stored under the id
create_worker_db_if_absent(d, w) ==
    IF w.id \in DOMAIN d[WORKER_BUCKETKEY] THEN d
    ELSE KvPut(d, WORKER_BUCKETKEY, w.id, EncodeWorker(w))

\* the store after create_worker(w)
create_worker_db(d, w) == KvPut(d, WORKER_BUCKETKEY, w.id, EncodeWorker(w))

create_worker(p, w) ==
    /\ Start(p)
    /\ db' = create_worker_db(db, w)
    /\ Return(p, "create_worker", <<w>>, Ok(w))
    /\ UNCHANGED <<now, hist>>

\* refresh_worker, self.get_worker(worker_id)?
refresh_worker_get(p, worker_id) ==
    /\ Start(p)
    /\ LET r == get_worker_ret(db, worker_id)
       IN  IF ~r.ok
           THEN Return(p, "refresh_worker", <<worker_id>>, r)
           ELSE /\ pc' = [pc EXCEPT ![p] = "refresh_worker_now"]
                /\ loc' = [loc EXCEPT ![p] =
                              [op |-> "refresh_worker",
                               worker_id |-> worker_id,
                               read |-> r.val, w |-> r.val]]
                /\ ret' = ret
    /\ UNCHANGED <<db, now, hist>>

\* a refresh that stamps the registration time instead
RefreshedRegister(w, t) == [w EXCEPT !.last_register = t]

\* the record of refresh_worker after w.last_online = chrono::Utc::now()
Refreshed(w, t) == [w EXCEPT !.last_online = t]

\* refresh_worker, w.last_online = chrono::Utc::now()
refresh_worker_now(p) ==
    /\ pc[p] = "refresh_worker_now"
    /\ pc' = [pc EXCEPT ![p] = "refresh_worker_create"]
    /\ loc' = [loc EXCEPT ![p].w = Refreshed(loc[p].w, now)]
    /\ UNCHANGED <<db, now, ret, calls, hist>>

\* a refresh_worker that stores only when the worker is still stored
refresh_worker_create_if_stored(p) ==
    /\ pc[p] = "refresh_worker_create"
    /\ IF KvGet(db, WORKER_BUCKETKEY, loc[p].worker_id).some
       THEN /\ db' = create_worker_db(db, loc[p].w)
            /\ Return(p, "refresh_worker", <<loc[p].worker_id>>, Ok(loc[p].w))
       ELSE /\ db' = db
            /\ Return(p, "refresh_worker", <<loc[p].worker_id>>,
                      WorkerNotFound(loc[p].worker_id))
    /\ UNCHANGED <<now, calls, hist>>

\* a refresh_worker that stores the record as it was read
refresh_worker_create_stale(p) ==
    /\ pc[p] = "refresh_worker_create"
    /\ db' = create_worker_db(db, loc[p].read)
    /\ Return(p, "refresh_worker", <<loc[p].worker_id>>, Ok(loc[p].w))
    /\ UNCHANGED <<now, calls, hist>>

\* refresh_worker, self.create_worker(w)
refresh_worker_create(p) ==
    /\ pc[p] = "refresh_worker_create"
    /\ db' = create_worker_db(db, loc[p].w)
    /\ Return(p, "refresh_worker", <<loc[p].worker_id>>, Ok(loc[p].w))
    /\ UNCHANGED <<now, calls, hist>>

\* an update that merges: the error_msg of a record already stored is kept
update_mirror_status_db_merge(d, worker_id, mirror_id, status) ==
    LET id == StatusKey(mirror_id, worker_id)
        v == KvGet(d, STATUS_BUCKETKEY, id)
    IN  KvPut(d, STATUS_BUCKETKEY, id,
              IF v.some
              THEN [EncodeMirror(status) EXCEPT !["error-msg"] = v.v["error-msg"]]
              ELSE EncodeMirror(status))

\* the store after update_mirror_status(worker_id, mirror_id, status)
update_mirror_status_db(d, worker_id, mirror_id, status) ==
    KvPut(d, STATUS_BUCKETKEY, StatusKey(mirror_id, worker_id),
          EncodeMirror(status))

update_mirror_status(p, worker_id, mirror_id, status) ==
    /\ Start(p)
    /\ db' = update_mirror_status_db(db, worker_id, mirror_id, status)
    /\ Return(p, "update_mirror_status", <<worker_id, mirror_id, status>>,
              Ok(status))
    /\ hist' = hist \cup {<<worker_id, mirror_id>>}
    /\ UNCHANGED now

get_mirror_status(p, worker_id, mirror_id) ==
    /\ Start(p)
    /\ Return(p, "get_mirror_status", <<worker_id, mirror_id>>,
              get_mirror_status_ret(db, worker_id, mirror_id))
    /\ UNCHANGED <<db, now, hist>>

list_mirror_status(p, worker_id) ==
    /\ Start(p)
    /\ Return(p, "list_mirror_status", <<worker_id>>,
              list_mirror_status_ret(db, worker_id))
    /\ UNCHANGED <<db, now, hist>>

list_all_mirror_status(p) ==
    /\ Start(p)
    /\ Return(p, "list_all_mirror_status", << >>,
              list_all_mirror_status_ret(db))
    /\ UNCHANGED <<db, now, hist>>

\* flush_disabled_jobs, self.inner.get_all: the loop runs over this copy
flush_disabled_jobs_get_all(p) ==
    /\ Start(p)
    /\ LET vals == KvGetAll(db, STATUS_BUCKETKEY)
       IN  /\ pc' = [pc EXCEPT ![p] = "flush_disabled_jobs_loop"]
           /\ loc' = [loc EXCEPT ![p] =
                         [op |-> "flush_disabled_jobs", vals |-> vals,
                          todo |-> DOMAIN vals]]
    /\ UNCHANGED <<db, now, ret, hist>>

\* a flush_disabled_jobs that puts the bucket back as it copied it when a
\* record does not decode
flush_disabled_jobs_next_rollback(p) ==
    /\ pc[p] = "flush_disabled_jobs_loop"
    /\ \E k \in loc[p].todo :
          LET m == DecodeMirror(loc[p].vals[k])
          IN  IF ~m.ok
              THEN /\ Return(p, "flush_disabled_jobs", << >>, m)
                   /\ db' = [db EXCEPT ![STATUS_BUCKETKEY] = loc[p].vals]
              ELSE /\ db' = IF Flushable(m.val)
                            THEN KvDelete(db, STATUS_BUCKETKEY, k)
                            ELSE db
                   /\ pc' = pc
                   /\ loc' = [loc EXCEPT ![p].todo = @ \ {k}]
                   /\ ret' = ret
    /\ UNCHANGED <<now, calls, hist>>

\* a flush_disabled_jobs that reads the record again before it deletes it
flush_disabled_jobs_next_current(p) ==
    /\ pc[p] = "flush_disabled_jobs_loop"
    /\ \E k \in loc[p].todo :
          LET m == DecodeMirror(loc[p].vals[k])
              v == KvGet(db, STATUS_BUCKETKEY, k)
          IN  IF ~m.ok
              THEN /\ Return(p, "flush_disabled_jobs", << >>, m)
                   /\ db' = db
              ELSE /\ db' = IF v.some /\ DecodeMirror(v.v).ok
                                     /\ Flushable(DecodeMirror(v.v).val)
                            THEN KvDelete(db, STATUS_BUCKETKEY, k)
                            ELSE db
                   /\ pc' = pc
                   /\ loc' = [loc EXCEPT ![p].todo = @ \ {k}]
                   /\ ret' = ret
    /\ UNCHANGED <<now, calls, hist>>

\* flush_disabled_jobs, one iteration of the loop over the copy, in the
\* unspecified order of the HashMap
flush_disabled_jobs_next(p) ==
    /\ pc[p] = "flush_disabled_jobs_loop"
    /\ \E k \in loc[p].todo :
          LET m == DecodeMirror(loc[p].vals[k])
          IN  IF ~m.ok
              THEN /\ Return(p, "flush_disabled_jobs", << >>, m)
                   /\ db' = db
              ELSE /\ db' = IF Flushable(m.val)
                            THEN KvDelete(db, STATUS_BUCKETKEY, k)
                            ELSE db
                   /\ pc' = pc
                   /\ loc' = [loc EXCEPT ![p].todo = @ \ {k}]
                   /\ ret' = ret
    /\ UNCHANGED <<now, calls, hist>>

\* flush_disabled_jobs, Ok(()) after the loop
flush_disabled_jobs_return(p) ==
    /\ pc[p] = "flush_disabled_jobs_loop"
    /\ loc[p].todo = {}
    /\ Return(p, "flush_disabled_jobs", << >>, Ok(<< >>))
    /\ UNCHANGED <<db, now, calls, hist>>

(* ----------------------------- specifications --------------------------- *)

\* one step of thread p in an operation on the workers bucket
WorkerStep(p) ==
    \/ list_workers(p)
    \/ \E worker_id \in WorkerIds : get_worker(p, worker_id)
    \/ \E worker_id \in WorkerIds : delete_worker_get(p, worker_id)
    \/ delete_worker_delete(p)
    \/ \E w \in WorkerInputs : create_worker(p, w)
    \/ \E worker_id \in WorkerIds : refresh_worker_get(p, worker_id)
    \/ refresh_worker_now(p)
    \/ refresh_worker_create(p)

\* one step of thread p in an operation on the mirror_status bucket
MirrorStep(p) ==
    \/ \E pr \in Pairs : \E status \in MirrorInputs(pr[1], pr[2]) :
          update_mirror_status(p, pr[1], pr[2], status)
    \/ \E pr \in Pairs : get_mirror_status(p, pr[1], pr[2])
    \/ \E worker_id \in WorkerIds : list_mirror_status(p, worker_id)
    \/ list_all_mirror_status(p)
    \/ flush_disabled_jobs_get_all(p)
    \/ flush_disabled_jobs_next(p)
    \/ flush_disabled_jobs_return(p)

\* the threads run interleaved, calling the worker operations
WorkerNext == Tick \/ \E p \in Procs : WorkerStep(p)

WorkerSpec == Init /\ [][WorkerNext]_vars

\* the threads run interleaved, calling the mirror-status operations, none
\* of which reads the clock
MirrorNext == \E p \in Procs : MirrorStep(p)

MirrorSpec == Init /\ [][MirrorNext]_vars

\* no other thread is inside a call
Alone(p) == \A q \in Procs \ {p} : pc[q] = "idle"

\* the worker operations, every call running to its return before another
\* one starts
WorkerSeqNext == Tick \/ \E p \in Procs : Alone(p) /\ WorkerStep(p)

WorkerSeqSpec == Init /\ [][WorkerSeqNext]_vars

\* the mirror-status operations, every call running to its return before
\* another one starts
MirrorSeqNext == \E p \in Procs : Alone(p) /\ MirrorStep(p)

MirrorSeqSpec == Init /\ [][MirrorSeqNext]_vars

\* one step of thread p in an operation that writes to the workers bucket
WorkerWriteStep(p) ==
    \/ \E worker_id \in WorkerIds : delete_worker_get(p, worker_id)
    \/ delete_worker_delete(p)
    \/ \E w \in WorkerInputs : create_worker(p, w)
    \/ \E worker_id \in WorkerIds : refresh_worker_get(p, worker_id)
    \/ refresh_worker_now(p)
    \/ refresh_worker_create(p)

\* one step of thread p in an operation that writes to the mirror_status
\* bucket
MirrorWriteStep(p) ==
    \/ \E pr \in Pairs : \E status \in MirrorInputs(pr[1], pr[2]) :
          update_mirror_status(p, pr[1], pr[2], status)
    \/ flush_disabled_jobs_get_all(p)
    \/ flush_disabled_jobs_next(p)
    \/ flush_disabled_jobs_return(p)

\* the thread that serves the workers
WorkerThread == CHOOSE p \in Procs : TRUE

\* one thread registers, refreshes and deletes workers while the others
\* store and flush mirror statuses
Next ==
    \/ Tick
    \/ WorkerWriteStep(WorkerThread)
    \/ \E p \in Procs \ {WorkerThread} : MirrorWriteStep(p)

Spec == Init /\ [][Next]_vars

\* the state before the adapter is constructed
MakeInit ==
    /\ db = NotOpened
    /\ now = 0
    /\ pc = [p \in Procs |-> "idle"]
    /\ loc = [p \in Procs |-> NoLoc]
    /\ ret = [p \in Procs |-> NoRet]
    /\ calls = 0
    /\ hist = {}

\* the construction of the adapter
MakeNext ==
    \E p \in Procs :
       \/ \E db_type \in DbTypes, db_file \in DbFiles :
             make_db_adapter_from_str(p, db_type, db_file)
       \/ make_db_adapter_create(p)
       \/ init(p)

MakeSpec == MakeInit /\ [][MakeNext]_vars

\* redb::Database::create(db_file) opens the file when it exists: the
\* adapter starts on the records the file holds
StoredAt(ws, ss) ==
    /\ db = [b \in {WORKER_BUCKETKEY, STATUS_BUCKETKEY} |->
                IF b = WORKER_BUCKETKEY THEN Restrict(StoredWorkers, ws)
                ELSE Restrict(StoredStatuses, ss)]
    /\ now = 0
    /\ pc = [p \in Procs |-> "idle"]
    /\ loc = [p \in Procs |-> NoLoc]
    /\ ret = [p \in Procs |-> NoRet]
    /\ calls = 0
    /\ hist = {}

\* the file holds any of the stored workers and statuses
StoredInit ==
    \E ws \in SUBSET (DOMAIN StoredWorkers) :
       \E ss \in SUBSET (DOMAIN StoredStatuses) : StoredAt(ws, ss)

\* one step of thread p in an operation that scans a whole bucket
ScanStep(p) ==
    \/ list_workers(p)
    \/ \E worker_id \in WorkerIds : list_mirror_status(p, worker_id)
    \/ list_all_mirror_status(p)
    \/ flush_disabled_jobs_get_all(p)
    \/ flush_disabled_jobs_next(p)
    \/ flush_disabled_jobs_return(p)

\* the scans of an adapter opened on a file that holds records, every call
\* running to its return before another one starts
StoredNext == \E p \in Procs : Alone(p) /\ ScanStep(p)

StoredSpec == StoredInit /\ [][StoredNext]_vars

\* the file holds any of the stored workers
RegisteredInit ==
    \E ws \in SUBSET (DOMAIN StoredWorkers) : StoredAt(ws, {})

\* one step of thread p in an operation on the workers bucket other than
\* create_worker
RegisteredStep(p) ==
    \/ \E worker_id \in WorkerIds : get_worker(p, worker_id)
    \/ \E worker_id \in WorkerIds : delete_worker_get(p, worker_id)
    \/ delete_worker_delete(p)
    \/ \E worker_id \in WorkerIds : refresh_worker_get(p, worker_id)
    \/ refresh_worker_now(p)
    \/ refresh_worker_create(p)

\* the threads run interleaved on the workers already registered: no
\* create_worker is called
RegisteredNext == Tick \/ \E p \in Procs : RegisteredStep(p)

RegisteredSpec == RegisteredInit /\ [][RegisteredNext]_vars

(* -------------------------------- claims -------------------------------- *)

WorkersBucket(d) == d[WORKER_BUCKETKEY]

StatusBucket(d) == d[STATUS_BUCKETKEY]

\* in this step thread p makes a call of op that returns at once, the other
\* threads standing still
Calls(p, op) ==
    /\ pc[p] = "idle"
    /\ pc'[p] = "idle"
    /\ calls' = calls + 1
    /\ ret'[p].op = op
    /\ \A q \in Procs \ {p} : ret'[q] = ret[q] /\ pc'[q] = pc[q]

\* C1: create_worker(w) returns w unchanged, and get_worker(w.id) on the
\* store it leaves succeeds with a record equal to w in every field.
C1_CreateThenGet ==
    [][\A p \in Procs :
          Calls(p, "create_worker") =>
             LET w == ret'[p].args[1]
             IN  create_worker(p, w) =>
                    /\ ret'[p].res = Ok(w)
                    /\ get_worker_ret(db', w.id) = Ok(w)]_vars

\* a create_worker has returned a record whose two timestamps differ, over a
\* record stored before under the same id, and get_worker returns it
C1_Witness ==
    \E p \in Procs, q \in Procs :
       /\ p # q
       /\ ret[p].op = "create_worker"
       /\ ret[q].op = "create_worker"
       /\ ret[p].args[1].id = ret[q].args[1].id
       /\ ret[p].args[1] # ret[q].args[1]
       /\ ret[p].args[1].last_online # ret[p].args[1].last_register
       /\ get_worker_ret(db, ret[p].args[1].id) = Ok(ret[p].args[1])

\* C2: delete_worker(id) on an id that is not stored returns the not-found
\* error and leaves the workers bucket as it is; on a stored id it goes on to
\* the delete, which returns success, after which get_worker(id) is not
\* found and every other worker is stored as before.
C2_DeleteWorker ==
    [][\A p \in Procs :
          /\ \A id \in WorkerIds :
                delete_worker_get(p, id) =>
                   IF id \in DOMAIN WorkersBucket(db)
                   THEN pc'[p] = "delete_worker_delete" /\ ret'[p] = ret[p]
                   ELSE /\ ret'[p] = [op |-> "delete_worker",
                                      args |-> <<id>>,
                                      res |-> WorkerNotFound(id)]
                        /\ pc'[p] = "idle"
                        /\ WorkersBucket(db') = WorkersBucket(db)
          /\ delete_worker_delete(p) =>
                LET id == loc[p].worker_id
                IN  /\ ret'[p] = [op |-> "delete_worker", args |-> <<id>>,
                                  res |-> Ok(<< >>)]
                    /\ get_worker_ret(db', id) = WorkerNotFound(id)
                    /\ \A other \in WorkerIds \ {id} :
                          KvGet(db', WORKER_BUCKETKEY, other)
                             = KvGet(db, WORKER_BUCKETKEY, other)]_vars

\* a delete_worker of a stored id has returned success, the id is gone and
\* another worker is still stored
C2_Witness ==
    \E p \in Procs :
       /\ ret[p].op = "delete_worker"
       /\ ret[p].res.ok
       /\ ret[p].args[1] \notin DOMAIN WorkersBucket(db)
       /\ WorkersBucket(db) # << >>

\* C3: run without interference, refresh_worker(id) on a stored worker reads
\* the clock once, stores the record again with id, url, token and
\* last_register as they were stored and last_online at the time read, and
\* returns that record; on an unknown id it returns the not-found error and
\* stores nothing.
C3_RefreshWorker ==
    [][\A p \in Procs :
          /\ \A id \in WorkerIds :
                (refresh_worker_get(p, id) /\ id \notin DOMAIN WorkersBucket(db))
                   => /\ ret'[p] = [op |-> "refresh_worker", args |-> <<id>>,
                                    res |-> WorkerNotFound(id)]
                      /\ pc'[p] = "idle"
                      /\ db' = db
          /\ refresh_worker_now(p) => loc'[p].w.last_online = now
          /\ refresh_worker_create(p) =>
                LET id == loc[p].worker_id
                    old == get_worker_ret(db, id)
                    new == get_worker_ret(db', id)
                IN  /\ old.ok /\ new.ok
                    /\ new.val.id = old.val.id
                    /\ new.val.url = old.val.url
                    /\ new.val.token = old.val.token
                    /\ new.val.last_register = old.val.last_register
                    /\ new.val.last_online = loc[p].w.last_online
                    /\ ret'[p] = [op |-> "refresh_worker", args |-> <<id>>,
                                  res |-> new]
                    /\ \A other \in WorkerIds \ {id} :
                          KvGet(db', WORKER_BUCKETKEY, other)
                             = KvGet(db, WORKER_BUCKETKEY, other)]_vars

\* a refresh_worker has returned the record now stored, whose last_online is
\* later than the time it was created with
C3_Witness ==
    \E p \in Procs, q \in Procs :
       /\ ret[p].op = "refresh_worker"
       /\ ret[p].res.ok
       /\ ret[q].op = "create_worker"
       /\ ret[q].args[1].id = ret[p].args[1]
       /\ get_worker_ret(db, ret[p].args[1]) = ret[p].res
       /\ ret[p].res.val.last_online > ret[q].args[1].last_online
       /\ ret[p].res.val.last_online > ret[p].res.val.last_register
       /\ ret[p].res.val = Refreshed(ret[q].args[1], now)

\* C9: two refresh_worker calls for one id can overlap, and the final put of
\* each stores the record that call read with its own last_online, whatever
\* was stored in between: of two calls that read the same record, the
\* last_online of the one that puts first is lost.
C9_LastWriterWins ==
    [][\A p \in Procs :
          refresh_worker_create(p) =>
             get_worker_ret(db', loc[p].worker_id)
                = Ok([loc[p].read EXCEPT !.last_online = loc[p].w.last_online])
      ]_vars

\* both threads have returned from a refresh_worker of the same id; the
\* record stored is the one p returned, and the later last_online that q
\* returned is stored nowhere
C9_Witness ==
    \E p \in Procs, q \in Procs :
       /\ ret[p].op = "refresh_worker" /\ ret[p].res.ok
       /\ ret[q].op = "refresh_worker" /\ ret[q].res.ok
       /\ ret[q].args = ret[p].args
       /\ pc[p] = "idle" /\ pc[q] = "idle"
       /\ get_worker_ret(db, ret[p].args[1]) = ret[p].res
       /\ ret[q].res.val.last_online > ret[p].res.val.last_online

\* the record stored under key k
Stored(d, k) == DecodeMirror(StatusBucket(d)[k]).val

\* C4: update_mirror_status(w, n, m) with m.worker = w and m.name = n leaves
\* a store on which get_mirror_status(w, n) returns a record equal to m, and
\* get_mirror_status of a pair update_mirror_status was never called with
\* returns the not-found error.
C4_UpdateThenGet ==
    [][/\ \A p \in Procs :
             Calls(p, "update_mirror_status") =>
                LET w == ret'[p].args[1]
                    n == ret'[p].args[2]
                    m == ret'[p].args[3]
                IN  (/\ update_mirror_status(p, w, n, m)
                     /\ m.worker = w /\ m.name = n)
                       => get_mirror_status_ret(db', w, n) = Ok(m)
       /\ \A pr \in Pairs \ hist' :
             get_mirror_status_ret(db', pr[1], pr[2])
                = MirrorNotFound(pr[2], pr[1])]_vars

\* C5: list_mirror_status(w) returns exactly the stored statuses whose worker
\* field equals w.
C5_ListByWorkerField ==
    \A w \in WorkerIds :
       LET vals == StatusBucket(db)
           mine == {k \in DOMAIN vals : Stored(db, k).worker = w}
       IN  list_mirror_status_ret(db, w) = Ok(Collect(Mirrors(vals), mine))

\* C6: run to completion without interference, flush_disabled_jobs works on
\* the bucket as it was when the call started, and when it returns success
\* the bucket holds exactly the records of that bucket that are neither
\* Disabled nor without a name, each under its key with its value.
C6_FlushDisabledJobs ==
    [][\A p \in Procs :
          /\ flush_disabled_jobs_get_all(p) => loc'[p].vals = StatusBucket(db)
          /\ flush_disabled_jobs_return(p) =>
                LET before == loc[p].vals
                    after == StatusBucket(db')
                    gone == {k \in DOMAIN before :
                                \/ DecodeMirror(before[k]).val.status = "Disabled"
                                \/ DecodeMirror(before[k]).val.name = EmptyStr}
                IN  /\ ret'[p] = [op |-> "flush_disabled_jobs",
                                  args |-> << >>, res |-> Ok(<< >>)]
                    /\ DOMAIN after = (DOMAIN before) \ gone
                    /\ \A k \in DOMAIN after : after[k] = before[k]]_vars

\* a flush_disabled_jobs has returned success; of the statuses the two
\* threads had stored, one without a name is gone and one that is named and
\* not Disabled is still stored
C6_Witness ==
    \E p \in Procs, q \in Procs :
       /\ ret[p].op = "flush_disabled_jobs"
       /\ ret[p].res.ok
       /\ ret[q].op = "update_mirror_status"
       /\ ret[q].args[3].name = EmptyStr
       /\ ret[q].args[3].status # "Disabled"
       /\ StatusKey(ret[q].args[2], ret[q].args[1]) \notin DOMAIN StatusBucket(db)
       /\ \E k \in DOMAIN StatusBucket(db) :
             Stored(db, k).status # "Disabled" /\ Stored(db, k).name # EmptyStr

\* C7: update_mirror_status overwrites: it returns the status it was given,
\* whether or not a record was stored for the pair, and get_mirror_status on
\* the store it leaves returns exactly that status.
C7_FullOverwrite ==
    [][\A p \in Procs :
          Calls(p, "update_mirror_status") =>
             LET worker_id == ret'[p].args[1]
                 mirror_id == ret'[p].args[2]
                 status == ret'[p].args[3]
             IN  update_mirror_status(p, worker_id, mirror_id, status) =>
                    /\ ret'[p].res = Ok(status)
                    /\ get_mirror_status_ret(db', worker_id, mirror_id)
                          = Ok(status)]_vars

\* the two threads have updated the same pair with statuses that differ in
\* status, name, error_msg and last_update, and the later one is what is
\* stored
C7_Witness ==
    \E p \in Procs, q \in Procs :
       /\ ret[p].op = "update_mirror_status"
       /\ ret[q].op = "update_mirror_status"
       /\ ret[p].args[1] = ret[q].args[1]
       /\ ret[p].args[2] = ret[q].args[2]
       /\ ret[p].args[3].status = "Success"
       /\ ret[q].args[3].status = "Syncing"
       /\ ret[p].args[3].name # ret[q].args[3].name
       /\ ret[p].args[3].error_msg # ret[q].args[3].error_msg
       /\ ret[p].args[3].last_update # ret[q].args[3].last_update
       /\ get_mirror_status_ret(db, ret[p].args[1], ret[p].args[2])
             = Ok(ret[p].args[3])

\* C8: list_all_mirror_status returns one record for every key of the
\* bucket; when the bucket holds the statuses of one mirror under two
\* workers, both are returned, and list_mirror_status of one of the two
\* workers returns only the record of that worker.
C8_ListAllAndByWorker ==
    /\ list_all_mirror_status_ret(db)
          = Ok(Collect(Mirrors(StatusBucket(db)), DOMAIN StatusBucket(db)))
    /\ \A n \in MirrorIds : \A w1 \in WorkerIds : \A w2 \in WorkerIds \ {w1} :
          (/\ {<<w1, n>>, <<w2, n>>} \subseteq Pairs
           /\ hist = {<<w1, n>>, <<w2, n>>}
           /\ DOMAIN StatusBucket(db) = {StatusKey(n, w1), StatusKey(n, w2)})
             => list_mirror_status_ret(db, w1)
                   = Ok(Collect(Mirrors(StatusBucket(db)), {StatusKey(n, w1)}))

\* C10: the bucket never holds two records with the same name and worker
\* under different keys.
C10_NameWorkerUnique ==
    \A k1 \in DOMAIN StatusBucket(db) : \A k2 \in DOMAIN StatusBucket(db) :
       (/\ Stored(db, k1).name = Stored(db, k2).name
        /\ Stored(db, k1).worker = Stored(db, k2).worker)
          => k1 = k2

\* the keys of the workers bucket whose record does not decode
BadWorkers(d) ==
    {k \in DOMAIN WorkersBucket(d) : ~DecodeWorker(WorkersBucket(d)[k]).ok}

\* the keys of status records vals whose record does not decode
BadStatuses(vals) == {k \in DOMAIN vals : ~DecodeMirror(vals[k]).ok}

\* thread p returns from flush_disabled_jobs in this step
FlushReturns(p) ==
    /\ pc[p] = "flush_disabled_jobs_loop"
    /\ pc'[p] = "idle"

\* C11 as stated: a scan (list_workers, list_all_mirror_status,
\* list_mirror_status, flush_disabled_jobs) of a bucket that holds a record
\* that does not decode returns the decode error.
C11_AnyBadRecordFails ==
    [][\A p \in Procs :
          /\ (Calls(p, "list_workers") /\ list_workers(p)
                 /\ BadWorkers(db) # {})
                => ret'[p].res = DecodeError
          /\ (Calls(p, "list_all_mirror_status") /\ list_all_mirror_status(p)
                 /\ BadStatuses(StatusBucket(db)) # {})
                => ret'[p].res = DecodeError
          /\ (Calls(p, "list_mirror_status")
                 /\ list_mirror_status(p, ret'[p].args[1])
                 /\ BadStatuses(StatusBucket(db)) # {})
                => ret'[p].res = DecodeError
          /\ (FlushReturns(p) /\ BadStatuses(loc[p].vals) # {})
                => ret'[p].res = DecodeError]_vars

\* C11, amended: a scan returns the decode error when a record it decodes
\* does not decode, and otherwise one result for every record it decodes;
\* list_workers, list_all_mirror_status and flush_disabled_jobs decode every
\* record of the bucket, list_mirror_status only the records under the keys
\* whose second segment is worker_id.
C11_DecodedBadRecordFails ==
    [][\A p \in Procs :
          /\ (Calls(p, "list_workers") /\ list_workers(p)) =>
                IF BadWorkers(db) # {}
                THEN ret'[p].res = DecodeError
                ELSE /\ ret'[p].res.ok
                     /\ BagCardinality(ret'[p].res.val)
                           = Cardinality(DOMAIN WorkersBucket(db))
          /\ (Calls(p, "list_all_mirror_status")
                 /\ list_all_mirror_status(p)) =>
                IF BadStatuses(StatusBucket(db)) # {}
                THEN ret'[p].res = DecodeError
                ELSE /\ ret'[p].res.ok
                     /\ BagCardinality(ret'[p].res.val)
                           = Cardinality(DOMAIN StatusBucket(db))
          /\ (Calls(p, "list_mirror_status")
                 /\ list_mirror_status(p, ret'[p].args[1])) =>
                LET sel == {k \in DOMAIN StatusBucket(db) :
                               KeyMatchesWorker(k, ret'[p].args[1])}
                IN  IF BadStatuses(StatusBucket(db)) \cap sel # {}
                    THEN ret'[p].res = DecodeError
                    ELSE /\ ret'[p].res.ok
                         /\ BagCardinality(ret'[p].res.val) = Cardinality(sel)
          /\ FlushReturns(p) =>
                ret'[p].res = IF BadStatuses(loc[p].vals) # {}
                              THEN DecodeError ELSE Ok(<< >>)]_vars

\* on a bucket that holds a record of the older schema, list_mirror_status
\* of the worker of its key has returned the decode error, and
\* list_mirror_status of another worker has returned that worker's record
C11_Witness ==
    \E p \in Procs, q \in Procs :
       /\ BadStatuses(StatusBucket(db)) # {}
       /\ ret[p].op = "list_mirror_status"
       /\ ret[p].res = DecodeError
       /\ ret[q].op = "list_mirror_status"
       /\ ret[q].res.ok
       /\ BagCardinality(ret[q].res.val) = 1

\* s is "redb" in some mix of cases with whitespace before and after it
IsRedbSelector(s) ==
    \E i \in 1..Len(s) :
       /\ i + 3 <= Len(s)
       /\ s[i] \in {"r", "R"} /\ s[i + 1] \in {"e", "E"}
       /\ s[i + 2] \in {"d", "D"} /\ s[i + 3] \in {"b", "B"}
       /\ \A j \in 1..Len(s) : (j < i \/ j > i + 3) => IsSpace(s[j])

\* C12: make_db_adapter with a selector that is not "redb" after trimming
\* whitespace and ignoring ASCII case returns at once the unsupported-type
\* error carrying the selector as it was passed, and opens no engine.
C12_UnsupportedSelector ==
    [][\A p \in Procs :
          (/\ pc[p] = "idle"
           /\ calls' = calls + 1
           /\ \/ pc'[p] = "make_db_adapter_create"
              \/ ret'[p].op = "make_db_adapter") =>
             LET db_type == IF pc'[p] = "idle" THEN ret'[p].args[1]
                            ELSE loc'[p].db_type
                 db_file == IF pc'[p] = "idle" THEN ret'[p].args[2]
                            ELSE loc'[p].db_file
             IN (/\ make_db_adapter_from_str(p, db_type, db_file)
                 /\ ~IsRedbSelector(db_type))
                   => /\ pc'[p] = "idle"
                      /\ ret'[p] = [op |-> "make_db_adapter",
                                     args |-> <<db_type, db_file>>,
                                     res |-> UnsupportedDbType(db_type)]
                      /\ db' = db]_vars

\* make_db_adapter has returned the unsupported-type error for a selector
\* with whitespace around it and capitals in it, the error carries the
\* selector as passed, and no engine has been opened
C12_Witness ==
    \E p \in Procs :
       /\ ret[p].op = "make_db_adapter"
       /\ ret[p].res = UnsupportedDbType(ret[p].args[1])
       /\ Trim(ret[p].args[1]) # ret[p].args[1]
       /\ ToAsciiLowercase(ret[p].args[1]) # ret[p].args[1]
       /\ db = NotOpened

\* C13 as stated: with no create_worker called and no stored last_online
\* ahead of the clock, a refresh_worker put never lowers the stored
\* last_online.
C13_LastOnlineNeverDecreases ==
    [][\A p \in Procs :
          refresh_worker_create(p) =>
             LET old == get_worker_ret(db, loc[p].worker_id)
                 new == get_worker_ret(db', loc[p].worker_id)
             IN  (/\ old.ok
                  /\ old.val.last_online <= now
                  /\ loc[p].read.last_online <= loc[p].w.last_online)
                    => new.val.last_online >= old.val.last_online]_vars

\* C13, amended: the put of a refresh_worker stores the clock value that
\* call read; it does not lower the stored last_online when the record the
\* call read is still the one stored and its last_online was not ahead of
\* the clock value read.
C13_NoDecreaseUnlessOvertaken ==
    [][\A p \in Procs :
          refresh_worker_create(p) =>
             LET old == get_worker_ret(db, loc[p].worker_id)
                 new == get_worker_ret(db', loc[p].worker_id)
             IN  /\ new.ok
                 /\ new.val.last_online = loc[p].w.last_online
                 /\ (/\ old = Ok(loc[p].read)
                     /\ loc[p].read.last_online <= loc[p].w.last_online)
                       => new.val.last_online >= old.val.last_online]_vars

\* a refresh_worker that read the clock after the stored last_online has
\* returned, and the record it read was still stored when it put: the stored
\* last_online has grown
C13_Witness ==
    \E p \in Procs :
       /\ ret[p].op = "refresh_worker"
       /\ ret[p].res.ok
       /\ get_worker_ret(db, ret[p].args[1]) = ret[p].res
       /\ ret[p].res.val.last_online = 2
       /\ \A q \in Procs \ {p} : ret[q].op = "none" /\ pc[q] = "idle"

\* thread p ends in this step the iteration of the flush_disabled_jobs loop
\* for key k
FlushVisits(p, k) ==
    /\ pc[p] = "flush_disabled_jobs_loop"
    /\ k \in loc[p].todo
    /\ pc'[p] = "flush_disabled_jobs_loop"
    /\ k \notin loc'[p].todo

\* C14 as stated: a record that flush_disabled_jobs deletes is, when it is
\* deleted, stored as Disabled or without a name; a record stored as named
\* and not Disabled when the loop comes to its key is left as it is.
C14_DeletesWhatIsStoredDisabled ==
    [][\A p \in Procs : \A k \in DOMAIN StatusBucket(db) :
          (FlushVisits(p, k) /\ ~Flushable(Stored(db, k)))
             => StatusBucket(db') = StatusBucket(db)]_vars

\* C14, amended: flush_disabled_jobs deletes the keys whose record was
\* Disabled or without a name in the copy of the bucket it took at its scan,
\* and no other key, whatever is stored under the key when the loop comes to
\* it: a record overwritten after the scan is deleted all the same.
C14_DeletesBySnapshot ==
    [][\A p \in Procs : \A k \in DOMAIN StatusBucket(db) :
          FlushVisits(p, k) =>
             LET scanned == DecodeMirror(loc[p].vals[k]).val
             IN  IF scanned.status = "Disabled" \/ scanned.name = EmptyStr
                 THEN /\ k \notin DOMAIN StatusBucket(db')
                      /\ StatusBucket(db')
                            = Restrict(StatusBucket(db),
                                       (DOMAIN StatusBucket(db)) \ {k})
                 ELSE StatusBucket(db') = StatusBucket(db)]_vars

\* thread q stored a record, thread p began its first call, a
\* flush_disabled_jobs, and copied the bucket, q then stored a named status
\* that is not Disabled under the same key, and the loop of p has deleted it
C14_Witness ==
    \E p \in Procs, q \in Procs :
       /\ ret[p].op = "none"
       /\ pc[p] = "flush_disabled_jobs_loop"
       /\ ret[q].op = "update_mirror_status"
       /\ ~Flushable(ret[q].args[3])
       /\ LET k == StatusKey(ret[q].args[2], ret[q].args[1])
          IN  /\ k \in DOMAIN loc[p].vals
              /\ Flushable(DecodeMirror(loc[p].vals[k]).val)
              /\ k \notin loc[p].todo
              /\ k \notin DOMAIN StatusBucket(db)

\* a delete_worker(id) has returned success
Deleted(id) ==
    \E p \in Procs :
       /\ ret[p].op = "delete_worker"
       /\ ret[p].args = <<id>>
       /\ ret[p].res.ok

\* thread p makes in this step the final put of a refresh_worker(id)
RefreshPuts(p, id) ==
    /\ pc[p] = "refresh_worker_create"
    /\ loc[p].worker_id = id
    /\ pc'[p] = "idle"

\* C15 as stated: with no create_worker called, once delete_worker(id) has
\* returned success get_worker(id) is not found.
C15_DeletedStaysAbsent ==
    \A id \in WorkerIds :
       Deleted(id) => get_worker_ret(db, id) = WorkerNotFound(id)

\* C15, amended: with no create_worker called, a worker that delete_worker
\* has deleted stays absent in every step but the final put of a
\* refresh_worker(id) that read the record before the delete, and that put
\* stores the record again with the last_online of the refresh.
C15_AbsentUntilRefreshPuts ==
    [][\A id \in WorkerIds :
          (Deleted(id) /\ get_worker_ret(db, id) = WorkerNotFound(id)) =>
             /\ (\A p \in Procs : ~RefreshPuts(p, id))
                   => get_worker_ret(db', id) = WorkerNotFound(id)
             /\ \A p \in Procs :
                   (RefreshPuts(p, id) /\ refresh_worker_create(p))
                      => /\ get_worker_ret(db', id) = Ok(loc[p].w)
                         /\ ret'[p].res = Ok(loc[p].w)]_vars

\* delete_worker(id) has returned success, a refresh_worker(id) that was in
\* progress has returned success after it, and the worker is stored again
C15_Witness ==
    \E p \in Procs, q \in Procs :
       /\ ret[p].op = "delete_worker"
       /\ ret[p].res.ok
       /\ ret[q].op = "refresh_worker"
       /\ ret[q].args = ret[p].args
       /\ ret[q].res.ok
       /\ get_worker_ret(db, ret[p].args[1]) = ret[q].res

\* C16 as stated: with no create_worker called, delete_worker(id) returns
\* success to at most one caller.
C16_AtMostOneDeleteSucceeds ==
    \A p \in Procs : \A q \in Procs \ {p} :
       ~(/\ ret[p].op = "delete_worker" /\ ret[p].res.ok
         /\ ret[q].op = "delete_worker" /\ ret[q].res.ok
         /\ ret[q].args = ret[p].args)

\* C16, amended: delete_worker(id) fails with not-found exactly when its
\* existence check finds no record; a call whose check found the record
\* returns success from its delete whether or not the record is still
\* stored, so two calls whose checks both ran before either delete both
\* return success.
C16_DeleteSucceedsAfterCheck ==
    [][\A p \in Procs :
          /\ (pc[p] = "idle" /\ pc'[p] = "delete_worker_delete")
                => loc'[p].worker_id \in DOMAIN WorkersBucket(db)
          /\ (pc[p] = "delete_worker_delete" /\ pc'[p] = "idle")
                => /\ ret'[p] = [op |-> "delete_worker",
                                  args |-> <<loc[p].worker_id>>,
                                  res |-> Ok(<< >>)]
                   /\ loc[p].worker_id \notin DOMAIN WorkersBucket(db')
                   /\ loc[p].worker_id \notin DOMAIN WorkersBucket(db)
                         => db' = db]_vars

\* two delete_worker calls of the same id have both returned success
C16_Witness ==
    \E p \in Procs, q \in Procs :
       /\ p # q
       /\ ret[p].op = "delete_worker" /\ ret[p].res.ok
       /\ ret[q].op = "delete_worker" /\ ret[q].res.ok
       /\ ret[q].args = ret[p].args
       /\ ret[p].args[1] \notin DOMAIN WorkersBucket(db)

\* C17: every key of the workers bucket is the id of the record stored under
\* it, so no two keys hold records with the same id.
C17_KeyIsWorkerId ==
    /\ \A k \in DOMAIN WorkersBucket(db) :
          /\ DecodeWorker(WorkersBucket(db)[k]).ok
          /\ DecodeWorker(WorkersBucket(db)[k]).val.id = k
    /\ \A k1 \in DOMAIN WorkersBucket(db) : \A k2 \in DOMAIN WorkersBucket(db) :
          DecodeWorker(WorkersBucket(db)[k1]).val.id
             = DecodeWorker(WorkersBucket(db)[k2]).val.id => k1 = k2

\* two workers are stored, one of them as a refresh_worker has stored it
\* again with a later last_online, the other as a create_worker stored it
C17_Witness ==
    \E p \in Procs, q \in Procs :
       /\ ret[p].op = "refresh_worker"
       /\ ret[p].res.ok
       /\ get_worker_ret(db, ret[p].args[1]) = ret[p].res
       /\ ret[p].res.val.last_online > 0
       /\ Cardinality(DOMAIN WorkersBucket(db)) = 2
       /\ ret[q].op = "create_worker"
       /\ ret[q].args[1].id # ret[p].args[1]

\* s has no '/'
SlashFree(s) == \A i \in 1..Len(s) : s[i] # Slash

\* the pairs <<worker_id, mirror_id>> made of ids without '/'
SlashFreePairs ==
    {pr \in WorkerIds \X MirrorIds : SlashFree(pr[1]) /\ SlashFree(pr[2])}

\* C18: with ids that have no '/', update_mirror_status(w, m, s) leaves what
\* get_mirror_status returns for every other pair as it was.
C18_UpdateTouchesOnePair ==
    [][\A p \in Procs :
          Calls(p, "update_mirror_status") =>
             LET w == ret'[p].args[1]
                 m == ret'[p].args[2]
             IN  (/\ update_mirror_status(p, w, m, ret'[p].args[3])
                  /\ <<w, m>> \in SlashFreePairs)
                    => \A pr \in SlashFreePairs \ {<<w, m>>} :
                          get_mirror_status_ret(db', pr[1], pr[2])
                             = get_mirror_status_ret(db, pr[1], pr[2])]_vars

\* the statuses of one mirror under two workers, ids without '/', have been
\* stored one after the other, they differ, and each pair has its own
C18_Witness ==
    \E p \in Procs, q \in Procs :
       /\ ret[p].op = "update_mirror_status"
       /\ ret[q].op = "update_mirror_status"
       /\ <<ret[p].args[1], ret[p].args[2]>> \in SlashFreePairs
       /\ <<ret[q].args[1], ret[q].args[2]>> \in SlashFreePairs
       /\ ret[p].args[1] # ret[q].args[1]
       /\ ret[p].args[2] = ret[q].args[2]
       /\ ret[p].args[3] # ret[q].args[3]
       /\ get_mirror_status_ret(db, ret[p].args[1], ret[p].args[2])
             = Ok(ret[p].args[3])
       /\ get_mirror_status_ret(db, ret[q].args[1], ret[q].args[2])
             = Ok(ret[q].args[3])

\* C19: a step of create_worker, refresh_worker or delete_worker leaves the
\* mirror_status bucket as it is, and a step of update_mirror_status or
\* flush_disabled_jobs leaves the workers bucket as it is.
C19_BucketsIndependent ==
    [][/\ StatusBucket(db') # StatusBucket(db)
             => \A p \in Procs : ~WorkerWriteStep(p)
       /\ WorkersBucket(db') # WorkersBucket(db)
             => \A p \in Procs : ~MirrorWriteStep(p)]_vars

\* delete_worker(id) has returned success and the worker is gone, while a
\* status stored for worker id is still in the mirror_status bucket
C19_Witness ==
    \E p \in Procs :
       /\ ret[p].op = "delete_worker"
       /\ ret[p].res.ok
       /\ ret[p].args[1] \notin DOMAIN WorkersBucket(db)
       /\ \E k \in DOMAIN StatusBucket(db) :
             /\ KeyMatchesWorker(k, ret[p].args[1])
             /\ Stored(db, k).worker = ret[p].args[1]

\* C20: run without interference, a flush_disabled_jobs that comes to a
\* record that does not decode returns the decode error in that step and
\* changes nothing in it; the bucket is then the copy it took less the keys
\* it had visited whose record was Disabled or without a name, and the
\* Disabled and nameless records it had not visited are still stored.
C20_FailedFlushKeepsDeletes ==
    [][\A p \in Procs :
          (FlushReturns(p) /\ ~ret'[p].res.ok) =>
             LET before == loc[p].vals
                 visited == (DOMAIN before) \ loc[p].todo
                 gone == {k \in visited :
                             \/ DecodeMirror(before[k]).val.status = "Disabled"
                             \/ DecodeMirror(before[k]).val.name = EmptyStr}
             IN  /\ ret'[p].res = DecodeError
                 /\ BadStatuses(before) \cap loc[p].todo # {}
                 /\ BadStatuses(before) \cap visited = {}
                 /\ db' = db
                 /\ StatusBucket(db')
                       = Restrict(before, (DOMAIN before) \ gone)
                 /\ loc[p].todo \subseteq DOMAIN StatusBucket(db')]_vars

\* list_mirror_status had returned the Disabled record of worker "v"; a
\* flush_disabled_jobs has then returned the decode error, and that record is
\* gone while the record without a name is still stored
C20_Witness ==
    \E p \in Procs, q \in Procs :
       /\ ret[p].op = "flush_disabled_jobs"
       /\ ret[p].res = DecodeError
       /\ ret[q].op = "list_mirror_status"
       /\ ret[q].res.ok
       /\ BagCardinality(ret[q].res.val) = 1
       /\ \E k \in DOMAIN StoredStatuses :
             /\ KeyMatchesWorker(k, ret[q].args[1])
             /\ DecodeMirror(StoredStatuses[k]).val.status = "Disabled"
             /\ k \notin DOMAIN StatusBucket(db)
       /\ \E k \in DOMAIN StatusBucket(db) :
             /\ DecodeMirror(StatusBucket(db)[k]).ok
             /\ Stored(db, k).name = EmptyStr
       /\ BadStatuses(StatusBucket(db)) # {}

====
